---- MODULE Spec2Model ----
(***************************************************************************)
(* Order fulfilment ledger of koloa-inventory: the order routes of         *)
(* src/src/api/orders.js over the Order, OrderItem and InventoryItem       *)
(* tables.  Every `await prisma.*` call of a handler is one step of the    *)
(* request; Spec runs each request to its response before the next one     *)
(* starts, SpecConc lets the steps of the clients' requests interleave.    *)
(***************************************************************************)
EXTENDS Integers, Sequences, FiniteSets, TLC

\* Bounds of the model.
MaxOrders == 1
MaxQty == 2
\* creations followed where the order numbers of the years are studied
MaxCreations == 3
\* rows of the ApiLog table
MaxLogs == 2
\* attempts counted for one client address
MaxAttempts == 5

\* InventoryItem rows that exist, and the ids a request may name.
Products == {1, 2}
ProductIds == {1, 2, 3}
\* lengths of the item list of a creation request
ListLengths == {0, 1, 2}
\* HTTP clients that may have a request in flight at the same time.
Clients == {"c1", "c2"}
\* requests that may arrive while requests overlap: a creation and one per client
RequestBudget == Cardinality(Clients) + 1

VARIABLES
    inventory,   \* InventoryItem table: id -> [stock, precio]
    orders,      \* Order table: sequence indexed by the autoincrement id
    orderItems,  \* OrderItem table: sequence indexed by the autoincrement id
    reqs,        \* per client: the request in flight (handler locals and position)
    last,        \* the response sent last
    started,     \* requests that have arrived while requests may overlap
    year,        \* the calendar year of the server's clock
    accepted,    \* the receptions answered 200 while requests may overlap
    apiLogs,     \* ApiLog table: the rows in the order of their timestamps
    apiLast,     \* the last request that went through apiLogger, and its response
    refused,     \* the order numbers an insert found taken while requests may overlap
    request,     \* the item list of the creation answered last, where it is followed
    before,      \* the tables as a confirm that was later interrupted found them
    users,       \* User table: id -> [code, role, blocked, failedAttempts]
    attemptsByIP,  \* the Map of rateLimiter.js: ip -> attempts (0: no entry)
    unknownSince,  \* per ip: attempts with an unknown code since the counter was cleared
    tokens,      \* the payloads of the tokens the login route has signed
    authLast     \* the last response of the login route or of a users operation

vars == <<inventory, orders, orderItems, reqs, last, started, year, accepted,
          apiLogs, apiLast, refused, request, before,
          users, attemptsByIP, unknownSince, tokens, authLast>>

apiVars == <<apiLogs, apiLast>>

historyVars == <<refused, request, before>>

authVars == <<users, attemptsByIP, unknownSince, tokens, authLast>>

DB == [inventory |-> inventory, orders |-> orders, orderItems |-> orderItems]

Idle == [op |-> "idle", pc |-> "done"]

----------------------------------------------------------------------------
\* Helpers

RECURSIVE Digits(_)
\* Number.prototype.toString(): the decimal digits of n
Digits(n) == IF n < 10 THEN <<n>> ELSE Digits(n \div 10) \o <<n % 10>>

RECURSIVE PadStart(_, _)
\* String.prototype.padStart(len, '0')
PadStart(s, len) == IF Len(s) >= len THEN s ELSE PadStart(<<0>> \o s, len)

RECURSIVE ParseInt(_)
\* parseInt of a digit string
ParseInt(s) == IF Len(s) = 0 THEN 0
               ELSE 10 * ParseInt(SubSeq(s, 1, Len(s) - 1)) + s[Len(s)]

RECURSIVE LexLess(_, _)
\* text comparison of the database (orderBy orderNumber): a < b
LexLess(a, b) ==
    IF Len(b) = 0 THEN FALSE
    ELSE IF Len(a) = 0 THEN TRUE
    ELSE IF a[1] # b[1] THEN a[1] < b[1]
    ELSE LexLess(Tail(a), Tail(b))

\* ids of the lines of order o, in id order (findMany / include items)
ItemIdsOf(db, o) == {i \in DOMAIN db.orderItems : db.orderItems[i].orderId = o}

RECURSIVE SortedSeq(_)
SortedSeq(S) == IF S = {} THEN <<>>
                ELSE LET m == CHOOSE x \in S : \A y \in S : x <= y
                     IN <<m>> \o SortedSeq(S \ {m})

\* a request ends with its HTTP response
Respond(db, r, code, error) ==
    [db |-> db, r |-> [r EXCEPT !.pc = "done", !.code = code, !.error = error]]

Continue(db, r) == [db |-> db, r |-> r]

----------------------------------------------------------------------------
\* POST /api/orders

\* An order number `ORD-<year>-<seq>`: the year of its prefix and the digits after
\* it.  Years have four digits, so one prefix is never the start of another.
OrderNumber(yearPrefix, seq) == [year |-> yearPrefix, seq |-> seq]

\* `orderNumber: { startsWith: yearPrefix }`
StartsWith(orderNumber, yearPrefix) == orderNumber.year = yearPrefix

\* the order findFirst(where startsWith, orderBy orderNumber desc) returns: 0 when
\* there is none
LastOrder(db, yearPrefix) ==
    LET found == {o \in DOMAIN db.orders : StartsWith(db.orders[o].orderNumber, yearPrefix)}
    IN IF found = {} THEN 0
       ELSE CHOOSE o \in found :
               \A p \in found :
                   ~LexLess(db.orders[o].orderNumber.seq, db.orders[p].orderNumber.seq)

generateOrderNumber_FromZero(db, currentYear) ==
    LET lastOrder == LastOrder(db, currentYear)
        nextNumber == IF lastOrder # 0
                      THEN ParseInt(db.orders[lastOrder].orderNumber.seq) + 1
                      ELSE 0
    IN OrderNumber(currentYear, PadStart(Digits(nextNumber), 3))

\* the next order number of the year: the numeric suffix padded to three digits
generateOrderNumber(db, currentYear) ==
    LET lastOrder == LastOrder(db, currentYear)
        nextNumber == IF lastOrder # 0
                      THEN ParseInt(db.orders[lastOrder].orderNumber.seq) + 1
                      ELSE 1
    IN OrderNumber(currentYear, PadStart(Digits(nextNumber), 3))

NewCreate(items) ==
    [op |-> "create", pc |-> "gen", items |-> items, i |-> 1,
     orderNumber |-> <<>>, totalItems |-> 0, totalPrice |-> 0,
     validatedItems |-> <<>>, id |-> 0, code |-> 0, error |-> ""]

\* basic validation, then `await generateOrderNumber()`
CreateGen(db, r) ==
    IF Len(r.items) = 0 THEN Respond(db, r, 400, "items obligatorios")
    ELSE Continue(db, [r EXCEPT !.orderNumber = generateOrderNumber(db, year),
                                !.pc = "validate"])

SkipsLine_Negative(quantity) == quantity < 0

SkipsLine_Never(quantity) == FALSE

\* `quantity <= 0`: the requested line is skipped
SkipsLine(quantity) == quantity <= 0

ProductMissing_AfterSkip(db, item) ==
    ~SkipsLine(item.quantityOrdered) /\ item.inventoryItemId \notin DOMAIN db.inventory

\* `!inventoryItem`: findUnique found no product with the id of the requested line
ProductMissing(db, item) == item.inventoryItemId \notin DOMAIN db.inventory

\* one turn of the validation loop: `await prisma.inventoryItem.findUnique`
\* (the request's item list is not read after the loop and is dropped there)
CreateValidate(db, r) ==
    LET item == r.items[r.i] IN
    IF ProductMissing(db, item)
    THEN Respond(db, r, 400, "producto no encontrado")
    ELSE
      LET inventoryItem == db.inventory[item.inventoryItemId]
          quantity == item.quantityOrdered
          r1 == IF SkipsLine(quantity) THEN [r EXCEPT !.i = @ + 1]
                ELSE [r EXCEPT !.i = @ + 1,
                               !.totalItems = @ + quantity,
                               !.totalPrice = @ + inventoryItem.precio * quantity,
                               !.validatedItems = Append(@,
                                   [inventoryItemId |-> item.inventoryItemId,
                                    quantityOrdered |-> quantity,
                                    priceAtTime |-> inventoryItem.precio])]
      IN IF r1.i <= Len(r1.items) THEN Continue(db, r1)
         ELSE IF Len(r1.validatedItems) = 0
         THEN Respond(db, r1, 400, "al menos un item")
         ELSE Continue(db, [r1 EXCEPT !.pc = "insert", !.items = <<>>])

ViolatesUnique_LinesOnly(db, r) ==
    \E a, b \in DOMAIN r.validatedItems :
        a # b /\ r.validatedItems[a].inventoryItemId = r.validatedItems[b].inventoryItemId

\* the unique indexes Order_orderNumber_key and OrderItem_orderId_inventoryItemId_key
ViolatesUnique(db, r) ==
    \/ \E o \in DOMAIN db.orders : db.orders[o].orderNumber = r.orderNumber
    \/ \E a, b \in DOMAIN r.validatedItems :
          a # b /\ r.validatedItems[a].inventoryItemId = r.validatedItems[b].inventoryItemId

\* the row the OrderItem table gets for a validated line (column defaults)
NewOrderItem(orderId, v) ==
    [orderId |-> orderId, inventoryItemId |-> v.inventoryItemId,
     quantityOrdered |-> v.quantityOrdered, quantityReceived |-> 0,
     priceAtTime |-> v.priceAtTime, status |-> "pending", receivedAt |-> FALSE]

\* `await prisma.order.create` with the nested lines
CreateInsert(db, r) ==
    IF ViolatesUnique(db, r) THEN Respond(db, r, 500, "error interno")
    ELSE
      LET newId == Len(db.orders) + 1
          newOrder == [orderNumber |-> r.orderNumber, status |-> "pending",
                       totalItems |-> r.totalItems, totalPrice |-> r.totalPrice,
                       completedAt |-> FALSE]
          newItems == [k \in DOMAIN r.validatedItems |->
                          NewOrderItem(newId, r.validatedItems[k])]
      IN Respond([db EXCEPT !.orders = Append(@, newOrder),
                            !.orderItems = @ \o newItems],
                 [r EXCEPT !.id = newId], 201, "")

StepCreate(db, r) ==
    CASE r.pc = "gen" -> CreateGen(db, r)
      [] r.pc = "validate" -> CreateValidate(db, r)
      [] r.pc = "insert" -> CreateInsert(db, r)

----------------------------------------------------------------------------
\* PUT /api/orders/:id/confirm

NewConfirm(id) ==
    [op |-> "confirm", pc |-> "find", id |-> id, items |-> <<>>, i |-> 1,
     stockUpdates |-> <<>>, code |-> 0, error |-> ""]

Confirmable_NotCancelled(status) == status # "cancelled"

\* `order.status !== 'pending' && order.status !== 'partial'` is the rejection
Confirmable(status) == status = "pending" \/ status = "partial"

QuantityPending_Ordered(orderItem) == orderItem.quantityOrdered

\* `orderItem.quantityOrdered - (orderItem.quantityReceived || 0)`
QuantityPending(orderItem) == orderItem.quantityOrdered - orderItem.quantityReceived

\* a line as findUnique returns it: the row with its inventoryItem's stock
ItemWithStock(db, i) ==
    LET row == db.orderItems[i] IN
    [id |-> i, inventoryItemId |-> row.inventoryItemId,
     quantityOrdered |-> row.quantityOrdered,
     quantityReceived |-> row.quantityReceived,
     receivedAt |-> row.receivedAt,
     orderStatus |-> db.orders[row.orderId].status,
     stock |-> db.inventory[row.inventoryItemId].stock]

RECURSIVE ConfirmSkip(_)
\* the turns of the loop that await nothing: lines already fully received
ConfirmSkip(r) ==
    IF r.i > Len(r.items) THEN [r EXCEPT !.pc = "order"]
    ELSE LET orderItem == r.items[r.i] IN
         IF QuantityPending(orderItem) > 0 THEN [r EXCEPT !.pc = "stock"]
         ELSE ConfirmSkip([r EXCEPT
                 !.i = @ + 1,
                 !.stockUpdates = Append(@,
                     [itemId |-> orderItem.inventoryItemId,
                      previousStock |-> orderItem.stock,
                      addedQuantity |-> 0,
                      newStock |-> orderItem.stock])])

\* `await prisma.order.findUnique` and the two checks on its result
ConfirmFind(db, r) ==
    IF r.id \notin DOMAIN db.orders THEN Respond(db, r, 404, "pedido no encontrado")
    ELSE IF ~Confirmable(db.orders[r.id].status)
    THEN Respond(db, r, 400, "solo pendientes o parciales")
    ELSE LET ids == SortedSeq(ItemIdsOf(db, r.id))
             items == [k \in DOMAIN ids |-> ItemWithStock(db, ids[k])]
         IN Continue(db, ConfirmSkip([r EXCEPT !.items = items]))

\* `await prisma.inventoryItem.update` of the current line
ConfirmStock(db, r) ==
    LET orderItem == r.items[r.i]
        newStock == orderItem.stock + QuantityPending(orderItem)
    IN Continue([db EXCEPT !.inventory[orderItem.inventoryItemId].stock = newStock],
                [r EXCEPT !.pc = "line"])

\* `await prisma.orderItem.update` of the current line, then on to the next
ConfirmLine(db, r) ==
    LET orderItem == r.items[r.i]
        quantityPending == QuantityPending(orderItem)
    IN Continue([db EXCEPT !.orderItems[orderItem.id].quantityReceived =
                               orderItem.quantityOrdered,
                           !.orderItems[orderItem.id].status = "completed",
                           !.orderItems[orderItem.id].receivedAt = TRUE],
                ConfirmSkip([r EXCEPT
                    !.i = @ + 1,
                    !.stockUpdates = Append(@,
                        [itemId |-> orderItem.inventoryItemId,
                         previousStock |-> orderItem.stock,
                         addedQuantity |-> quantityPending,
                         newStock |-> orderItem.stock + quantityPending])]))

\* `await prisma.order.update`: the order is marked completed
ConfirmOrder(db, r) ==
    Respond([db EXCEPT !.orders[r.id].status = "completed",
                       !.orders[r.id].completedAt = TRUE],
            r, 200, "")

StepConfirm(db, r) ==
    CASE r.pc = "find" -> ConfirmFind(db, r)
      [] r.pc = "stock" -> ConfirmStock(db, r)
      [] r.pc = "line" -> ConfirmLine(db, r)
      [] r.pc = "order" -> ConfirmOrder(db, r)

----------------------------------------------------------------------------
\* PUT /api/orders/:id/items/:itemId/receive

NewReceive(id, itemId, quantityReceived) ==
    [op |-> "receive", pc |-> "find", id |-> id, itemId |-> itemId,
     quantityReceived |-> quantityReceived, orderItem |-> <<>>,
     orderStatus |-> "", stockUpdates |-> <<>>, code |-> 0, error |-> ""]

IsCancelled_Misspelt(status) == status = "canceled"

\* `orderItem.order.status === 'cancelled'` is the rejection
IsCancelled(status) == status = "cancelled"

NewTotalReceived_Cumulative(received, quantityReceived) == quantityReceived

\* `orderItem.quantityReceived + quantityReceived`
NewTotalReceived(received, quantityReceived) == received + quantityReceived

ExceedsOrdered_OffByOne(newTotalReceived, quantityOrdered) ==
    newTotalReceived > quantityOrdered + 1

ExceedsOrdered_Never(newTotalReceived, quantityOrdered) == newTotalReceived < 0

\* `newTotalReceived > orderItem.quantityOrdered` is the rejection
ExceedsOrdered(newTotalReceived, quantityOrdered) == newTotalReceived > quantityOrdered

ItemStatus_GreaterThan(newTotalReceived, quantityOrdered) ==
    IF newTotalReceived > quantityOrdered THEN "completed"
    ELSE IF newTotalReceived > 0 THEN "partial"
    ELSE "pending"

\* the new status of the line
ItemStatus(newTotalReceived, quantityOrdered) ==
    IF newTotalReceived = quantityOrdered THEN "completed"
    ELSE IF newTotalReceived > 0 THEN "partial"
    ELSE "pending"

OrderStatus_PartialOnly(statuses) ==
    LET completedItems == Cardinality({k \in DOMAIN statuses : statuses[k] = "completed"})
        partialItems == Cardinality({k \in DOMAIN statuses : statuses[k] = "partial"})
    IN IF completedItems = Len(statuses) THEN "completed"
       ELSE IF partialItems > 0 THEN "partial"
       ELSE "pending"

\* the status of the order recomputed from the statuses of its lines
OrderStatus(statuses) ==
    LET completedItems == Cardinality({k \in DOMAIN statuses : statuses[k] = "completed"})
        partialItems == Cardinality({k \in DOMAIN statuses : statuses[k] = "partial"})
    IN IF completedItems = Len(statuses) THEN "completed"
       ELSE IF completedItems > 0 \/ partialItems > 0 THEN "partial"
       ELSE "pending"

\* the quantity check, `await prisma.orderItem.findFirst` and the checks on its result
ReceiveFind(db, r) ==
    IF r.quantityReceived <= 0 THEN Respond(db, r, 400, "cantidad mayor a 0")
    ELSE IF ~(r.itemId \in DOMAIN db.orderItems /\ db.orderItems[r.itemId].orderId = r.id)
    THEN Respond(db, r, 404, "item no encontrado")
    ELSE LET orderItem == ItemWithStock(db, r.itemId) IN
         IF IsCancelled(orderItem.orderStatus)
         THEN Respond(db, r, 400, "pedido cancelado")
         ELSE IF ExceedsOrdered(NewTotalReceived(orderItem.quantityReceived,
                                                 r.quantityReceived),
                                orderItem.quantityOrdered)
         THEN Respond(db, r, 400, "mas de lo pedido")
         ELSE Continue(db, [r EXCEPT !.orderItem = orderItem, !.pc = "stock"])

ReceiveStock_AddsTotal(db, r) ==
    LET newStock == r.orderItem.stock
                      + NewTotalReceived(r.orderItem.quantityReceived, r.quantityReceived)
    IN
    Continue([db EXCEPT !.inventory[r.orderItem.inventoryItemId].stock = newStock],
             [r EXCEPT !.pc = "line",
                       !.stockUpdates = <<[itemId |-> r.orderItem.inventoryItemId,
                                           previousStock |-> r.orderItem.stock,
                                           addedQuantity |-> r.quantityReceived,
                                           newStock |-> newStock]>>])

\* `await prisma.inventoryItem.update`
ReceiveStock(db, r) ==
    LET newStock == r.orderItem.stock + r.quantityReceived IN
    Continue([db EXCEPT !.inventory[r.orderItem.inventoryItemId].stock = newStock],
             [r EXCEPT !.pc = "line",
                       !.stockUpdates = <<[itemId |-> r.orderItem.inventoryItemId,
                                           previousStock |-> r.orderItem.stock,
                                           addedQuantity |-> r.quantityReceived,
                                           newStock |-> newStock]>>])

ReceiveLine_AlwaysStamps(db, r) ==
    LET newTotalReceived == NewTotalReceived(r.orderItem.quantityReceived,
                                             r.quantityReceived)
        itemStatus == ItemStatus(newTotalReceived, r.orderItem.quantityOrdered)
    IN Continue([db EXCEPT !.orderItems[r.itemId].quantityReceived = newTotalReceived,
                           !.orderItems[r.itemId].status = itemStatus,
                           !.orderItems[r.itemId].receivedAt = TRUE],
                [r EXCEPT !.pc = "scan"])

\* `await prisma.orderItem.update`
ReceiveLine(db, r) ==
    LET newTotalReceived == NewTotalReceived(r.orderItem.quantityReceived,
                                             r.quantityReceived)
        itemStatus == ItemStatus(newTotalReceived, r.orderItem.quantityOrdered)
    IN Continue([db EXCEPT !.orderItems[r.itemId].quantityReceived = newTotalReceived,
                           !.orderItems[r.itemId].status = itemStatus,
                           !.orderItems[r.itemId].receivedAt =
                               IF itemStatus = "completed" THEN TRUE
                               ELSE r.orderItem.receivedAt],
                [r EXCEPT !.pc = "scan"])

\* `await prisma.orderItem.findMany` and the recomputation of the order's status
ReceiveScan(db, r) ==
    LET ids == SortedSeq(ItemIdsOf(db, r.id))
        statuses == [k \in DOMAIN ids |-> db.orderItems[ids[k]].status]
    IN Continue(db, [r EXCEPT !.orderStatus = OrderStatus(statuses), !.pc = "order"])

\* `await prisma.order.update`
ReceiveOrder(db, r) ==
    Respond([db EXCEPT !.orders[r.id].status = r.orderStatus,
                       !.orders[r.id].completedAt = (r.orderStatus = "completed")],
            r, 200, "")

StepReceive(db, r) ==
    CASE r.pc = "find" -> ReceiveFind(db, r)
      [] r.pc = "stock" -> ReceiveStock(db, r)
      [] r.pc = "line" -> ReceiveLine(db, r)
      [] r.pc = "scan" -> ReceiveScan(db, r)
      [] r.pc = "order" -> ReceiveOrder(db, r)

----------------------------------------------------------------------------
\* PUT /api/orders/:id/cancel

NewCancel(id) == [op |-> "cancel", pc |-> "find", id |-> id, code |-> 0, error |-> ""]

Cancellable_NotCompleted(status) == status # "completed"

Cancellable_LikeConfirm(status) == status = "pending" \/ status = "partial"

\* `order.status !== 'pending'` is the rejection
Cancellable(status) == status = "pending"

\* `await prisma.order.findUnique` and the two checks on its result
CancelFind(db, r) ==
    IF r.id \notin DOMAIN db.orders THEN Respond(db, r, 404, "pedido no encontrado")
    ELSE IF ~Cancellable(db.orders[r.id].status)
    THEN Respond(db, r, 400, "solo pendientes")
    ELSE Continue(db, [r EXCEPT !.pc = "update"])

\* `await prisma.order.update`
CancelUpdate(db, r) ==
    Respond([db EXCEPT !.orders[r.id].status = "cancelled"], r, 200, "")

StepCancel(db, r) ==
    CASE r.pc = "find" -> CancelFind(db, r)
      [] r.pc = "update" -> CancelUpdate(db, r)

----------------------------------------------------------------------------
\* POST /api/inventory and PUT /api/inventory/:id

NewInventoryCreate(complete, stock, precio) ==
    [op |-> "inventoryCreate", pc |-> "create", id |-> 0, complete |-> complete,
     stock |-> stock, precio |-> precio, code |-> 0, error |-> ""]

\* the id the autoincrement column gives the next InventoryItem row
NextInventoryId(db) ==
    1 + CHOOSE m \in DOMAIN db.inventory : \A p \in DOMAIN db.inventory : p <= m

\* the validation of the required fields and `await prisma.inventoryItem.create`
InventoryCreateRow(db, r) ==
    IF ~r.complete THEN Respond(db, r, 400, "faltan campos obligatorios")
    ELSE LET newId == NextInventoryId(db) IN
         Respond([db EXCEPT !.inventory =
                     [p \in DOMAIN @ \cup {newId} |->
                         IF p = newId THEN [stock |-> r.stock, precio |-> r.precio]
                         ELSE @[p]]],
                 [r EXCEPT !.id = newId], 201, "")

NewInventoryUpdate(id, stock, precio) ==
    [op |-> "inventoryUpdate", pc |-> "update", id |-> id,
     stock |-> stock, precio |-> precio, code |-> 0, error |-> ""]

InventoryUpdateRow_Reprice(db, r) ==
    IF r.id \notin DOMAIN db.inventory THEN Respond(db, r, 404, "producto no encontrado")
    ELSE Respond([db EXCEPT !.inventory[r.id] = [stock |-> r.stock, precio |-> r.precio],
                            !.orderItems =
                                [i \in DOMAIN @ |->
                                    IF @[i].inventoryItemId = r.id
                                    THEN [@[i] EXCEPT !.priceAtTime = r.precio]
                                    ELSE @[i]]],
                 r, 200, "")

\* `await prisma.inventoryItem.update`: P2025 when there is no such row
InventoryUpdateRow(db, r) ==
    IF r.id \notin DOMAIN db.inventory THEN Respond(db, r, 404, "producto no encontrado")
    ELSE Respond([db EXCEPT !.inventory[r.id] = [stock |-> r.stock, precio |-> r.precio]],
                 r, 200, "")

----------------------------------------------------------------------------
\* The server

\* one database call of a request, with the code up to the next call or the response
StepReq(db, r) ==
    CASE r.op = "create" -> StepCreate(db, r)
      [] r.op = "confirm" -> StepConfirm(db, r)
      [] r.op = "receive" -> StepReceive(db, r)
      [] r.op = "cancel" -> StepCancel(db, r)
      [] r.op = "inventoryCreate" -> InventoryCreateRow(db, r)
      [] r.op = "inventoryUpdate" -> InventoryUpdateRow(db, r)

RECURSIVE RunToEnd(_, _)
\* a handler run from its first line to its response with no other request in between
RunToEnd(db, r) ==
    IF r.pc = "done" THEN [db |-> db, r |-> r]
    ELSE LET out == StepReq(db, r) IN RunToEnd(out.db, out.r)

\* what the client gets: the status code and the error message, if any
Response(r) == [op |-> r.op, id |-> r.id, code |-> r.code, error |-> r.error]

NoResponse == [op |-> "none", id |-> 0, code |-> 0, error |-> ""]

\* the inputs of the requests: ids of rows that exist and one that does not
OrderIdsOf(db) == 1..(Len(db.orders) + 1)
LineIdsOf(db) == 1..(Len(db.orderItems) + 1)
RequestedQuantities == {-1, 0, 1, MaxQty}
RequestedLines == [inventoryItemId : ProductIds, quantityOrdered : RequestedQuantities]
ItemLists == UNION {[1..n -> RequestedLines] : n \in ListLengths}

\* <<order id, line id, quantity>>: every quantity on a line of the order, and one
\* quantity for each pair of an order and a line that is not a line of it
ReceiveInputs(db) ==
    {x \in OrderIdsOf(db) \X LineIdsOf(db) \X (0..MaxQty) :
        \/ x[2] \in DOMAIN db.orderItems /\ db.orderItems[x[2]].orderId = x[1]
        \/ x[3] = 1}

InitialStock(p) == p
Precio(p) == p + 1
\* the year the server is started in
FirstYear == 2025
NoApiResponse == [method |-> "", url |-> <<>>, role |-> "null", code |-> 0, data |-> <<>>]

\* the client addresses login attempts come from
IPs == {"ip1", "ip2"}

\* the User rows the server starts with: an administrator (scripts/setup-admin.js), a
\* user, and a user whose row carries four failed attempts (the handlers only read
\* and reset that column: such a row is in the table before the server starts)
SeededUsers ==
    (1 :> [name |-> "Administrador", code |-> <<0, 0, 0, 0>>, role |-> "admin",
           blocked |-> FALSE, failedAttempts |-> 0]) @@
    (2 :> [name |-> "Barra", code |-> <<1, 1, 1, 1>>, role |-> "user",
           blocked |-> FALSE, failedAttempts |-> 0]) @@
    (3 :> [name |-> "Sala", code |-> <<2, 2, 2, 2>>, role |-> "user",
           blocked |-> FALSE, failedAttempts |-> 4])

NoSnapshot == [taken |-> FALSE, interrupted |-> FALSE]
\* a request without a token that verifies
NoToken == <<>>
NoAuthResponse ==
    [op |-> "none", ip |-> "", code |-> <<>>, status |-> 0, handled |-> FALSE,
     token |-> NoToken]

\* the state the order routes never touch, as the server starts
InitRest ==
    /\ refused = {}
    /\ request = <<>>
    /\ before = NoSnapshot
    /\ users = SeededUsers
    /\ attemptsByIP = [ip \in IPs |-> 0]
    /\ unknownSince = [ip \in IPs |-> 0]
    /\ tokens = {}
    /\ authLast = NoAuthResponse

Init ==
    /\ inventory = [p \in Products |-> [stock |-> InitialStock(p), precio |-> Precio(p)]]
    /\ orders = <<>>
    /\ orderItems = <<>>
    /\ reqs = [c \in Clients |-> Idle]
    /\ last = NoResponse
    /\ started = 0
    /\ year = FirstYear
    /\ accepted = <<>>
    /\ apiLogs = <<>>
    /\ apiLast = NoApiResponse
    /\ InitRest

AllIdle == \A c \in Clients : reqs[c] = Idle

\* a request served alone, from arrival to response
Serve(r) ==
    /\ AllIdle
    /\ \E out \in {RunToEnd(DB, r)} :
         /\ inventory' = out.db.inventory
         /\ orders' = out.db.orders
         /\ orderItems' = out.db.orderItems
         /\ last' = Response(out.r)
    /\ UNCHANGED <<reqs, started, year, accepted, apiVars, historyVars, authVars>>

Create == \E items \in ItemLists : Len(orders) < MaxOrders /\ Serve(NewCreate(items))

Confirm == \E id \in OrderIdsOf(DB) : Serve(NewConfirm(id))

ReceiveItem == \E x \in ReceiveInputs(DB) : Serve(NewReceive(x[1], x[2], x[3]))

Cancel == \E id \in OrderIdsOf(DB) : Serve(NewCancel(id))

Next == Create \/ Confirm \/ ReceiveItem \/ Cancel

Spec == Init /\ [][Next]_vars

RECURSIVE Settle(_)
\* The validation loop of a creation reads InventoryItem rows only, and no request
\* that overlaps with it here adds, deletes or reprices one: its reads are taken with
\* the call before.
Settle(out) == IF out.r.pc = "validate" THEN Settle(StepReq(out.db, out.r)) ELSE out

\* a confirm or receive-item answered 200, and what it was asked to receive
IsReception(r) == r.op \in {"confirm", "receive"} /\ r.code = 200
Reception(r) ==
    IF r.op = "receive"
    THEN [op |-> "receive", id |-> r.id, itemId |-> r.itemId,
          quantityReceived |-> r.quantityReceived]
    ELSE [op |-> "confirm", id |-> r.id, itemId |-> 0, quantityReceived |-> 0]

\* the insert of creation r finds its order number taken (Order_orderNumber_key)
NumberTaken(db, r) ==
    /\ r.op = "create" /\ r.pc = "insert"
    /\ \E o \in DOMAIN db.orders : db.orders[o].orderNumber = r.orderNumber

\* Requests whose database calls interleave: a request arrives with its first call.
Advance(c, r) ==
    \E out \in {Settle(StepReq(DB, r))} :
    /\ refused' = IF NumberTaken(DB, r) THEN refused \cup {r.orderNumber} ELSE refused
    /\ inventory' = out.db.inventory
    /\ orders' = out.db.orders
    /\ orderItems' = out.db.orderItems
    /\ IF out.r.pc = "done"
       THEN /\ reqs' = [reqs EXCEPT ![c] = Idle]
            /\ last' = Response(out.r)
            /\ accepted' = IF IsReception(out.r) THEN Append(accepted, Reception(out.r))
                           ELSE accepted
       ELSE reqs' = [reqs EXCEPT ![c] = out.r] /\ UNCHANGED <<last, accepted>>
    /\ UNCHANGED <<year, apiVars, request, before, authVars>>

Start(c, r) ==
    /\ reqs[c] = Idle
    /\ started < RequestBudget
    /\ started' = started + 1
    /\ Advance(c, r)

StartCreate == \E c \in Clients, items \in ItemLists : Start(c, NewCreate(items))

StartConfirm == \E c \in Clients, id \in OrderIdsOf(DB) : Start(c, NewConfirm(id))

StartReceive ==
    \E c \in Clients, x \in ReceiveInputs(DB) : Start(c, NewReceive(x[1], x[2], x[3]))

StartCancel == \E c \in Clients, id \in OrderIdsOf(DB) : Start(c, NewCancel(id))

Step == \E c \in Clients : reqs[c] # Idle /\ Advance(c, reqs[c]) /\ UNCHANGED started

NextConc == StartCreate \/ StartConfirm \/ StartReceive \/ StartCancel \/ Step

SpecConc == Init /\ [][NextConc]_vars

----------------------------------------------------------------------------
\* Orders and the inventory endpoints, requests served one at a time.

\* what an inventory request may carry as stock and as price
EditedStocks == {0}
EditedPrices == {7}

InventoryCreate ==
    \E complete \in BOOLEAN, stock \in EditedStocks, precio \in EditedPrices :
       /\ NextInventoryId(DB) \in ProductIds
       /\ Serve(NewInventoryCreate(complete, stock, precio))

InventoryUpdate ==
    \E id \in ProductIds, stock \in EditedStocks, precio \in EditedPrices :
       Serve(NewInventoryUpdate(id, stock, precio))

\* the creation of the order the inventory requests are followed around
CreateFirst == \E items \in ItemLists : orders = <<>> /\ Serve(NewCreate(items))

NextInventory ==
    CreateFirst \/ Confirm \/ ReceiveItem \/ Cancel \/ InventoryCreate \/ InventoryUpdate

SpecInventory == Init /\ [][NextInventory]_vars

----------------------------------------------------------------------------
\* Creations served one at a time, each kept with the item list of its request.

CreateRequest ==
    \E items \in ItemLists :
       /\ Len(orders) < MaxOrders
       /\ AllIdle
       /\ \E out \in {RunToEnd(DB, NewCreate(items))} :
            /\ inventory' = out.db.inventory
            /\ orders' = out.db.orders
            /\ orderItems' = out.db.orderItems
            /\ last' = Response(out.r)
       /\ request' = items
       /\ UNCHANGED <<reqs, started, year, accepted, apiVars, refused, before, authVars>>

NextCreate == CreateRequest

SpecCreate == Init /\ [][NextCreate]_vars

----------------------------------------------------------------------------
\* A confirm that the server does not live to finish: the process stops between two
\* database calls of the handler, and the client sends the confirm again.

\* the client whose confirm is followed
Confirmer == "c1"

\* one database call of the confirm in flight
ConfirmAdvance(r) ==
    \E out \in {StepReq(DB, r)} :
    /\ inventory' = out.db.inventory
    /\ orders' = out.db.orders
    /\ orderItems' = out.db.orderItems
    /\ IF out.r.pc = "done"
       THEN reqs' = [reqs EXCEPT ![Confirmer] = Idle] /\ last' = Response(out.r)
       ELSE reqs' = [reqs EXCEPT ![Confirmer] = out.r] /\ UNCHANGED last
    /\ UNCHANGED <<started, year, accepted, apiVars, refused, request, authVars>>

\* receive-items served before the confirm arrives
ReceiveBefore == ~before.taken /\ ReceiveItem

\* the confirm arrives, for the first time or again after the interruption; the
\* tables as the first arrival finds them are kept for the comparison
ConfirmBegin ==
    \E id \in DOMAIN orders :
       /\ AllIdle
       /\ before.taken => (before.interrupted /\ before.id = id /\ last.op # "confirm")
       /\ before' = IF before.taken THEN before
                    ELSE [taken |-> TRUE, interrupted |-> FALSE, id |-> id,
                          inventory |-> inventory, orderItems |-> orderItems]
       /\ ConfirmAdvance(NewConfirm(id))

ConfirmStep ==
    /\ reqs[Confirmer] # Idle
    /\ ConfirmAdvance(reqs[Confirmer])
    /\ UNCHANGED before

\* the server process stops and is started again: the request in flight is gone
\* with what it had not written yet, the tables stay as they are
Crash ==
    /\ reqs[Confirmer] # Idle
    /\ ~before.interrupted
    /\ reqs' = [reqs EXCEPT ![Confirmer] = Idle]
    /\ before' = [before EXCEPT !.interrupted = TRUE]
    /\ UNCHANGED <<inventory, orders, orderItems, last, started, year, accepted, apiVars,
                   refused, request, authVars>>

NextCrash == CreateFirst \/ ReceiveBefore \/ ConfirmBegin \/ ConfirmStep \/ Crash

SpecCrash == Init /\ [][NextCrash]_vars

----------------------------------------------------------------------------
\* Order numbering over the years: creations served one at a time on a database that
\* already holds the orders of earlier creations of the first year.

\* how many orders the first year already has
ExistingOrders == {0, 8, 98, 998}
\* the item lists of the creations: one line of an existing product, or of none
NumberedLists == {<<[inventoryItemId |-> p, quantityOrdered |-> 1]>> : p \in {1, 3}}
LastYear == FirstYear + 1

\* the rows left by the k-th creation of the first year, served alone with one line
EarlierOrder(k) ==
    [orderNumber |-> OrderNumber(FirstYear, PadStart(Digits(k), 3)),
     status |-> "pending", totalItems |-> 1, totalPrice |-> Precio(1),
     completedAt |-> FALSE]
EarlierItem(k) ==
    NewOrderItem(k, [inventoryItemId |-> 1, quantityOrdered |-> 1,
                     priceAtTime |-> Precio(1)])

InitNumbering ==
    /\ inventory = [p \in Products |-> [stock |-> InitialStock(p), precio |-> Precio(p)]]
    /\ \E n \in ExistingOrders :
          /\ orders = [k \in 1..n |-> EarlierOrder(k)]
          /\ orderItems = [k \in 1..n |-> EarlierItem(k)]
    /\ reqs = [c \in Clients |-> Idle]
    /\ last = NoResponse
    /\ started = 0
    /\ year = FirstYear
    /\ accepted = <<>>
    /\ apiLogs = <<>>
    /\ apiLast = NoApiResponse
    /\ InitRest

\* a creation served alone
CreateInYear ==
    /\ started < MaxCreations
    /\ started' = started + 1
    /\ \E items \in NumberedLists : \E out \in {RunToEnd(DB, NewCreate(items))} :
         /\ inventory' = out.db.inventory
         /\ orders' = out.db.orders
         /\ orderItems' = out.db.orderItems
         /\ last' = Response(out.r)
    /\ UNCHANGED <<reqs, year, accepted, apiVars, historyVars, authVars>>

\* the clock passes into the next calendar year
NewYear ==
    /\ year < LastYear
    /\ year' = year + 1
    /\ UNCHANGED <<inventory, orders, orderItems, reqs, last, started, accepted, apiVars,
                   historyVars, authVars>>

NextNumbering == CreateInYear \/ NewYear

SpecNumbering == InitNumbering /\ [][NextNumbering]_vars

----------------------------------------------------------------------------
\* The request log: apiLogger in front of the routers, and the routes of /api/logs.
\* Paths are sequences of characters.

\* `app.use("/api", ...)`: the mount path, stripped from req.path
MountPath == <<"/", "a", "p", "i">>

InventoryUrl == <<"/", "a", "p", "i", "/", "i", "n", "v", "e", "n", "t", "o", "r", "y">>
InventoryItemUrl == <<"/", "a", "p", "i", "/", "i", "n", "v", "e", "n", "t", "o", "r", "y", "/", "1">>
OrdersUrl == <<"/", "a", "p", "i", "/", "o", "r", "d", "e", "r", "s">>
OrderUrl == <<"/", "a", "p", "i", "/", "o", "r", "d", "e", "r", "s", "/", "1">>
OrderConfirmUrl == <<"/", "a", "p", "i", "/", "o", "r", "d", "e", "r", "s", "/", "1", "/", "c", "o", "n", "f", "i", "r", "m">>
LogsUrl == <<"/", "a", "p", "i", "/", "l", "o", "g", "s">>
LogsStatsUrl == <<"/", "a", "p", "i", "/", "l", "o", "g", "s", "/", "s", "t", "a", "t", "s">>
LogsCleanupUrl == <<"/", "a", "p", "i", "/", "l", "o", "g", "s", "/", "c", "l", "e", "a", "n", "u", "p">>

\* the routes of the three routers: <<method, url>>
InventoryRequests ==
    {<<"GET", InventoryUrl>>, <<"POST", InventoryUrl>>,
     <<"PUT", InventoryItemUrl>>, <<"DELETE", InventoryItemUrl>>}
OrdersRequests ==
    {<<"GET", OrdersUrl>>, <<"GET", OrderUrl>>, <<"POST", OrdersUrl>>,
     <<"PUT", OrderConfirmUrl>>}
LogsRequests ==
    {<<"GET", LogsUrl>>, <<"GET", LogsStatsUrl>>, <<"DELETE", LogsCleanupUrl>>}

\* what the Authorization header carries: nothing, a token that does not verify, or
\* a token whose payload has the role admin, the role user, or no role
Tokens == {"none", "invalid", "admin", "user", "norole"}

\* the status codes a route handler of the inventory and orders routers may answer
HandlerCodes == {200, 400}

\* String.prototype.startsWith
PathStartsWith(s, prefix) ==
    Len(prefix) <= Len(s) /\ SubSeq(s, 1, Len(prefix)) = prefix

\* req.path inside a middleware mounted at MountPath
PathUnderMount(url) == SubSeq(url, Len(MountPath) + 1, Len(url))

EXCLUDED_ROUTES ==
    {<<"/", "i", "n", "v", "e", "n", "t", "o", "r", "y">>,
     <<"/", "a", "u", "t", "h", "/", "v", "e", "r", "i", "f", "y">>,
     <<"/", "h", "e", "a", "l", "t", "h">>,
     <<"/", "p", "i", "n", "g">>,
     <<"/", "l", "o", "g", "s">>}

\* EXCLUDED_METHODS[endpoint], the empty set when the object has no such key
EXCLUDED_METHODS(endpoint) ==
    IF endpoint = InventoryUrl THEN {"GET"}
    ELSE IF endpoint = OrdersUrl THEN {"GET"}
    ELSE {}

\* shouldExclude of apiLogger
shouldExclude(method, endpoint) ==
    \/ \E route \in EXCLUDED_ROUTES : PathStartsWith(endpoint, route)
    \/ method \in EXCLUDED_METHODS(endpoint)

\* authMiddleware: the token verifies, and the role req.user then has
Authenticated(token) == token \in {"admin", "user", "norole"}
RoleOf(token) == IF token = "norole" THEN "user" ELSE token

\* the userRole apiLogger stores: req.user.role, null without a verified token
LoggedRole(token) == IF Authenticated(token) THEN RoleOf(token) ELSE "null"

\* res.on('finish'): the row apiLogger adds unless the request is excluded
Logged(logs, method, url, token) ==
    LET endpoint == PathUnderMount(url) IN
    IF shouldExclude(method, endpoint) THEN logs
    ELSE Append(logs, [method |-> method, endpoint |-> endpoint,
                       userRole |-> LoggedRole(token)])

ApiResponse(method, url, token, code, data) ==
    [method |-> method, url |-> url, role |-> LoggedRole(token), code |-> code,
     data |-> data]

\* a request to a route of the inventory or orders router; what its handler does to
\* the order tables is followed in the other specifications
Routed(method, url, token) ==
    /\ Len(apiLogs) < MaxLogs
    /\ \E code \in (IF Authenticated(token) THEN HandlerCodes ELSE {401}) :
          apiLast' = ApiResponse(method, url, token, code, <<>>)
    /\ apiLogs' = Logged(apiLogs, method, url, token)
    /\ UNCHANGED <<inventory, orders, orderItems, reqs, last, started, year, accepted,
                   historyVars, authVars>>

RequestInventory == \E x \in InventoryRequests, token \in Tokens : Routed(x[1], x[2], token)

RequestOrders == \E x \in OrdersRequests, token \in Tokens : Routed(x[1], x[2], token)

\* GET /api/logs, GET /api/logs/stats and DELETE /api/logs/cleanup; deleteMany removes
\* the rows older than the cutoff, the `old` first rows
LogsRoute(method, url, token, old) ==
    IF ~Authenticated(token) THEN [code |-> 401, data |-> <<>>, logs |-> apiLogs]
    ELSE IF url = LogsUrl THEN [code |-> 200, data |-> apiLogs, logs |-> apiLogs]
    ELSE IF url = LogsStatsUrl
    THEN [code |-> 200, data |-> <<[totalRequests |-> Len(apiLogs)]>>, logs |-> apiLogs]
    ELSE IF RoleOf(token) # "admin" THEN [code |-> 403, data |-> <<>>, logs |-> apiLogs]
    ELSE [code |-> 200, data |-> <<>>,
          logs |-> SubSeq(apiLogs, old + 1, Len(apiLogs))]

RequestLogs ==
    \E x \in LogsRequests, token \in Tokens, old \in 0..Len(apiLogs) :
       \E out \in {LogsRoute(x[1], x[2], token, old)} :
          /\ apiLast' = ApiResponse(x[1], x[2], token, out.code, out.data)
          /\ apiLogs' = Logged(out.logs, x[1], x[2], token)
          /\ UNCHANGED <<inventory, orders, orderItems, reqs, last, started, year,
                         accepted, historyVars, authVars>>

NextApi == RequestInventory \/ RequestOrders \/ RequestLogs

SpecApi == Init /\ [][NextApi]_vars

----------------------------------------------------------------------------
\* POST /api/auth/login behind rateLimiter, and the operations of /api/users behind
\* authMiddleware.  A PIN is the sequence of its characters.

\* the codes of the login attempts: none, too short, of no user, and the users' codes
LoginCodes ==
    {<<>>, <<9, 9>>, <<9, 9, 9, 9>>, <<0, 0, 0, 0>>, <<1, 1, 1, 1>>, <<2, 2, 2, 2>>}

\* prisma.user.findFirst({ where: { code } }): the id of the user, 0 when there is none
UserByCode(us, code) ==
    IF \E u \in DOMAIN us : us[u].code = code
    THEN CHOOSE u \in DOMAIN us : us[u].code = code
    ELSE 0

LimitReached_OneLater(currentAttempts) == currentAttempts > 3

\* `currentAttempts >= 3`
LimitReached(currentAttempts) == currentAttempts >= 3

\* rateLimiter: the User table and the Map after it, whether it called next(), and
\* the status it answered otherwise
rateLimiter(us, attempts, clientIP, code) ==
    IF code = <<>>
    THEN [users |-> us, attempts |-> attempts, next |-> TRUE, status |-> 0]
    ELSE LET user == UserByCode(us, code) IN
         IF user = 0
         THEN LET currentAttempts == attempts[clientIP]
                  counted == [attempts EXCEPT ![clientIP] = currentAttempts + 1]
              IN IF LimitReached(currentAttempts)
                 THEN [users |-> us, attempts |-> counted, next |-> FALSE, status |-> 429]
                 ELSE [users |-> us, attempts |-> counted, next |-> TRUE, status |-> 0]
         ELSE IF us[user].failedAttempts >= 4
         THEN [users |-> [us EXCEPT ![user].blocked = TRUE], attempts |-> attempts,
               next |-> FALSE, status |-> 423]
         ELSE [users |-> us, attempts |-> [attempts EXCEPT ![clientIP] = 0],
               next |-> TRUE, status |-> 0]

\* generateToken({ userId: user.id, name: user.name }): the payload that is signed
LoginToken(us, user) == [userId |-> user, name |-> us[user].name]

\* the handler of POST /login
loginHandler(us, code) ==
    IF code = <<>> \/ Len(code) # 4
    THEN [users |-> us, status |-> 400, token |-> NoToken]
    ELSE LET user == UserByCode(us, code) IN
         IF user = 0 THEN [users |-> us, status |-> 401, token |-> NoToken]
         ELSE IF us[user].blocked THEN [users |-> us, status |-> 423, token |-> NoToken]
         ELSE [users |-> [us EXCEPT ![user].failedAttempts = 0], status |-> 200,
               token |-> LoginToken(us, user)]

\* the attempt is made with a code that is the code of no user
UnknownCode(us, code) == code # <<>> /\ UserByCode(us, code) = 0

\* the attempt is made with the code of a user with fewer than four failed attempts
ClearingCode(us, code) ==
    code # <<>> /\ UserByCode(us, code) # 0 /\ us[UserByCode(us, code)].failedAttempts < 4

Login ==
    \E ip \in IPs, code \in LoginCodes :
       /\ attemptsByIP[ip] < MaxAttempts
       /\ \E rl \in {rateLimiter(users, attemptsByIP, ip, code)} :
            /\ attemptsByIP' = rl.attempts
            /\ IF rl.next
               THEN \E h \in {loginHandler(rl.users, code)} :
                      /\ users' = h.users
                      /\ tokens' = IF h.status = 200 THEN tokens \cup {h.token} ELSE tokens
                      /\ authLast' = [op |-> "login", ip |-> ip, code |-> code,
                                      status |-> h.status, handled |-> TRUE,
                                      token |-> h.token]
               ELSE /\ users' = rl.users
                    /\ tokens' = tokens
                    /\ authLast' = [op |-> "login", ip |-> ip, code |-> code,
                                    status |-> rl.status, handled |-> FALSE,
                                    token |-> NoToken]
       /\ unknownSince' =
             [unknownSince EXCEPT ![ip] = IF UnknownCode(users, code) THEN @ + 1
                                          ELSE IF ClearingCode(users, code) THEN 0
                                          ELSE @]
       /\ UNCHANGED <<inventory, orders, orderItems, reqs, last, started, year, accepted,
                      apiVars, historyVars>>

\* authMiddleware: req.user, the payload of the token with the role user when the
\* payload has none
authMiddleware(token) ==
    IF "role" \in DOMAIN token THEN token
    ELSE [k \in DOMAIN token \cup {"role"} |-> IF k = "role" THEN "user" ELSE token[k]]

\* `req.user.role !== 'admin'` is the refusal of the five operations
IsAdmin(user) == user.role = "admin"

getUsers(us, user) ==
    IF ~IsAdmin(user) THEN [users |-> us, status |-> 403]
    ELSE [users |-> us, status |-> 200]

\* the id the autoincrement column gives the next User row
NextUserId(us) == 1 + CHOOSE m \in DOMAIN us : \A u \in DOMAIN us : u <= m

createUser(us, user, code, role) ==
    IF ~IsAdmin(user) THEN [users |-> us, status |-> 403]
    ELSE IF code = <<>> THEN [users |-> us, status |-> 400]
    ELSE IF Len(code) # 4 THEN [users |-> us, status |-> 400]
    ELSE IF role \notin {"admin", "user"} THEN [users |-> us, status |-> 400]
    ELSE IF UserByCode(us, code) # 0 THEN [users |-> us, status |-> 400]
    ELSE LET newId == NextUserId(us) IN
         [users |-> [u \in DOMAIN us \cup {newId} |->
                        IF u = newId
                        THEN [name |-> "Nuevo", code |-> code, role |-> role,
                              blocked |-> FALSE, failedAttempts |-> 0]
                        ELSE us[u]],
          status |-> 201]

\* updateUser with the role and blocked of the body (name and code left out of it)
updateUser(us, user, id, role, blocked) ==
    IF ~IsAdmin(user) THEN [users |-> us, status |-> 403]
    ELSE IF id \notin DOMAIN us THEN [users |-> us, status |-> 404]
    ELSE IF role \notin {"admin", "user"} THEN [users |-> us, status |-> 400]
    ELSE [users |-> [us EXCEPT ![id].role = role,
                               ![id].blocked = blocked,
                               ![id].failedAttempts = IF ~blocked THEN 0 ELSE @],
          status |-> 200]

deleteUser(us, user, id) ==
    IF ~IsAdmin(user) THEN [users |-> us, status |-> 403]
    ELSE IF id \notin DOMAIN us THEN [users |-> us, status |-> 404]
    ELSE IF id = user.userId THEN [users |-> us, status |-> 400]
    ELSE [users |-> [u \in DOMAIN us \ {id} |-> us[u]], status |-> 200]

getSystemStats(us, user) ==
    IF ~IsAdmin(user) THEN [users |-> us, status |-> 403]
    ELSE [users |-> us, status |-> 200]

UsersOperations == {"getUsers", "createUser", "updateUser", "deleteUser", "getSystemStats"}
UserIds == {1, 2, 3, 4}
UserRoles == {"admin", "user", "root"}
NewCodes == {<<>>, <<9, 9>>, <<3, 3, 3, 3>>, <<1, 1, 1, 1>>}

\* a request to a route of usersRoutes.js: router.use(authMiddleware), then the handler
UsersRoute(us, op, token, id, code, role, blocked) ==
    IF token = NoToken THEN [users |-> us, status |-> 401]
    ELSE LET user == authMiddleware(token) IN
         CASE op = "getUsers" -> getUsers(us, user)
           [] op = "createUser" -> createUser(us, user, code, role)
           [] op = "updateUser" -> updateUser(us, user, id, role, blocked)
           [] op = "deleteUser" -> deleteUser(us, user, id)
           [] op = "getSystemStats" -> getSystemStats(us, user)

\* the tokens a client can send: the ones the login route has signed, or none
UsersRequest ==
    \E op \in UsersOperations, token \in tokens \cup {NoToken}, id \in UserIds,
       code \in NewCodes, role \in UserRoles, blocked \in BOOLEAN :
       \E out \in {UsersRoute(users, op, token, id, code, role, blocked)} :
          /\ users' = out.users
          /\ authLast' = [op |-> op, ip |-> "", code |-> <<>>, status |-> out.status,
                          handled |-> token # NoToken, token |-> token]
          /\ UNCHANGED <<inventory, orders, orderItems, reqs, last, started, year,
                         accepted, apiVars, historyVars, attemptsByIP, unknownSince,
                         tokens>>

NextAuth == Login \/ UsersRequest

SpecAuth == Init /\ [][NextAuth]_vars

----------------------------------------------------------------------------
\* Properties

Lines(o) == ItemIdsOf(DB, o)
Stock(p) == inventory[p].stock

RECURSIVE SumOver(_, _)
SumOver(S, f) ==
    IF S = {} THEN 0
    ELSE LET x == CHOOSE y \in S : TRUE IN f[x] + SumOver(S \ {x}, f)

\* what is still to be received on the lines of order o that reference product p
PendingFor(o, p) ==
    SumOver({i \in Lines(o) : orderItems[i].inventoryItemId = p},
            [i \in DOMAIN orderItems |->
                orderItems[i].quantityOrdered - orderItems[i].quantityReceived])

DbUnchanged == UNCHANGED <<inventory, orders, orderItems>>

\* C1: every order line has 0 <= quantityReceived <= quantityOrdered, also while
\* requests interleave at the granularity of their database calls.
C1_ReceivedWithinOrdered ==
    \A i \in DOMAIN orderItems :
        /\ 0 <= orderItems[i].quantityReceived
        /\ orderItems[i].quantityReceived <= orderItems[i].quantityOrdered

\* a line was received in full by one request while another request was in flight
C1_Witness ==
    /\ \E c \in Clients : reqs[c] # Idle
    /\ \E i \in DOMAIN orderItems :
          /\ orderItems[i].quantityOrdered = MaxQty
          /\ orderItems[i].quantityReceived = orderItems[i].quantityOrdered
          /\ last.op = "receive" /\ last.code = 200

\* C2: between requests served one at a time, the status of an order that is not
\* cancelled is the function of its lines' statuses: completed iff all lines are
\* completed, partial iff some line is partial or completed but not all are
\* completed, pending otherwise.
C2_OrderStatusFromLines ==
    \A o \in DOMAIN orders :
        LET allCompleted == \A i \in Lines(o) : orderItems[i].status = "completed"
            someReceived == \E i \in Lines(o) :
                                orderItems[i].status \in {"partial", "completed"}
            status == orders[o].status
        IN status # "cancelled" =>
             /\ status = "completed" <=> allCompleted
             /\ status = "partial" <=> (someReceived /\ ~allCompleted)
             /\ status = "pending" <=> (~someReceived /\ ~allCompleted)

\* an order with one line completed and the other pending is partial
C2_Witness ==
    \E o \in DOMAIN orders :
        /\ orders[o].status = "partial"
        /\ \E i, j \in Lines(o) :
              orderItems[i].status = "completed" /\ orderItems[j].status = "pending"

\* C3: the status of every order line matches its quantities: completed iff
\* quantityReceived = quantityOrdered, partial iff 0 < quantityReceived <
\* quantityOrdered, pending iff quantityReceived = 0.
C3_LineStatusFromQuantities ==
    \A i \in DOMAIN orderItems :
        LET line == orderItems[i] IN
        /\ line.status = "completed" <=> line.quantityReceived = line.quantityOrdered
        /\ line.status = "partial" <=>
              (0 < line.quantityReceived /\ line.quantityReceived < line.quantityOrdered)
        /\ line.status = "pending" <=> line.quantityReceived = 0

\* a line partially received while a confirmation of its order is in flight
C3_Witness ==
    /\ \E c \in Clients : reqs[c].op = "confirm"
    /\ \E i \in DOMAIN orderItems :
          /\ orderItems[i].status = "partial"
          /\ last.op = "receive" /\ last.code = 200

\* C4: served one at a time, requests change an order's status only along
\* pending->partial, pending->completed, partial->completed and pending->cancelled;
\* partial and completed are entered only by receive-item or confirm on that order,
\* cancelled only by cancel on it; a new order starts pending.
C4_StatusTransitions ==
    [][/\ \A o \in DOMAIN orders :
            /\ o \in DOMAIN orders'
            /\ orders'[o].status # orders[o].status =>
                 /\ <<orders[o].status, orders'[o].status>> \in
                       {<<"pending", "partial">>, <<"pending", "completed">>,
                        <<"partial", "completed">>, <<"pending", "cancelled">>}
                 /\ last'.id = o
                 /\ orders'[o].status \in {"partial", "completed"} =>
                       last'.op \in {"receive", "confirm"}
                 /\ orders'[o].status = "cancelled" => last'.op = "cancel"
       /\ \A o \in DOMAIN orders' \ DOMAIN orders : orders'[o].status = "pending"
      ]_vars

\* a cancel was refused on a completed order, which is still completed
C4_Witness ==
    /\ last.op = "cancel" /\ last.code = 400
    /\ last.id \in DOMAIN orders
    /\ orders[last.id].status = "completed"

\* C5: a confirm of a pending or partial order adds to each product's stock exactly
\* what was still to be received on the order's line of that product (nothing for
\* other products), leaves every line completed with quantityReceived =
\* quantityOrdered, and the order completed.
C5_ConfirmReceivesPending ==
    [][\A id \in DOMAIN orders :
          (/\ last'.op = "confirm" /\ last'.id = id
           /\ orders[id].status \in {"pending", "partial"}) =>
             /\ last'.code = 200
             /\ \A p \in Products : inventory'[p].stock = Stock(p) + PendingFor(id, p)
             /\ \A i \in Lines(id) :
                   /\ orderItems'[i].quantityReceived = orderItems[i].quantityOrdered
                   /\ orderItems'[i].status = "completed"
             /\ orders'[id].status = "completed"
      ]_vars

\* a confirm completed an order of two lines, and the stock of both products rose
C5_Witness ==
    /\ last.op = "confirm" /\ last.code = 200
    /\ Cardinality(Lines(last.id)) = 2
    /\ \A i \in Lines(last.id) :
          /\ orderItems[i].quantityReceived = MaxQty
          /\ orderItems[i].status = "completed"
    /\ \A p \in Products : Stock(p) > InitialStock(p)
    /\ orders[last.id].status = "completed"

\* the receive-item the response of this step answers was for quantity q on line i
ReceiveServed(i, q) ==
    /\ orderItems[i].orderId = last'.id
    /\ Serve(NewReceive(last'.id, i, q))

\* C6: the quantity of an accepted receive-item is an increment: the line's
\* quantityReceived and the product's stock each rise by exactly that quantity, and
\* the line is completed exactly when the total reaches quantityOrdered, partial before.
C6_ReceiveIsIncrement ==
    [][(last'.op = "receive" /\ last'.code = 200) =>
          \A i \in DOMAIN orderItems, q \in 1..MaxQty :
             ReceiveServed(i, q) =>
                LET line == orderItems[i]
                    total == line.quantityReceived + q
                IN /\ orderItems'[i].quantityReceived = total
                   /\ \A p \in Products :
                         inventory'[p].stock =
                             Stock(p) + (IF p = line.inventoryItemId THEN q ELSE 0)
                   /\ orderItems'[i].status =
                         (IF total = line.quantityOrdered THEN "completed" ELSE "partial")
      ]_vars

\* a receive-item completed one line of an order whose other line is still pending,
\* and the stock of the line's product has risen by the quantity ordered
C6_Witness ==
    /\ last.op = "receive" /\ last.code = 200
    /\ \E i \in Lines(last.id), j \in Lines(last.id) :
          /\ orderItems[i].quantityOrdered = MaxQty
          /\ orderItems[i].status = "completed"
          /\ orderItems[j].status = "pending"
          /\ Len(orders) = 1
          /\ Stock(orderItems[i].inventoryItemId) =
                InitialStock(orderItems[i].inventoryItemId) + MaxQty

\* C7: a receive-item whose quantity would take the line beyond quantityOrdered is
\* answered 400 and changes no stock, no line and no order.
C7_OverReceiveRejected ==
    [][last'.op = "receive" =>
          \A i \in DOMAIN orderItems, q \in 1..MaxQty :
             (/\ orderItems[i].quantityReceived + q > orderItems[i].quantityOrdered
              /\ ReceiveServed(i, q)) =>
                last'.code = 400 /\ DbUnchanged
      ]_vars

\* a receive-item was refused for exceeding what is left on a partly received line
C7_Witness ==
    /\ last.op = "receive" /\ last.code = 400 /\ last.error = "mas de lo pedido"
    /\ \E i \in Lines(last.id) : orderItems[i].status = "partial"

\* C8: a cancel of a pending order sets its status to cancelled and changes nothing
\* else (no stock, no line); a cancel of a partial, completed or cancelled order is
\* answered 400 and changes nothing.
C8_CancelFrame ==
    [][\A id \in DOMAIN orders :
          (last'.op = "cancel" /\ last'.id = id) =>
             IF orders[id].status = "pending"
             THEN /\ last'.code = 200
                  /\ orders' = [orders EXCEPT ![id].status = "cancelled"]
                  /\ inventory' = inventory
                  /\ orderItems' = orderItems
             ELSE last'.code = 400 /\ DbUnchanged
      ]_vars

\* a pending order was cancelled
C8_Witness ==
    /\ last.op = "cancel" /\ last.code = 200
    /\ orders[last.id].status = "cancelled"
    /\ \A i \in Lines(last.id) : orderItems[i].quantityReceived = 0

\* C9: served one at a time, once an order is cancelled every receive-item and
\* confirm on it is refused, and neither the order, nor its lines, nor (by a request
\* on that order) any stock changes again.
C9_CancelledIsFrozen ==
    [][\A id \in DOMAIN orders :
          orders[id].status = "cancelled" =>
             /\ orders'[id] = orders[id]
             /\ \A i \in Lines(id) : orderItems'[i] = orderItems[i]
             /\ last'.id = id =>
                   /\ inventory' = inventory
                   /\ last'.op \in {"receive", "confirm"} => last'.code \in {400, 404}
      ]_vars

\* a receive-item on a line of a cancelled order was refused
C9_Witness ==
    /\ last.op = "receive" /\ last.code = 400 /\ last.error = "pedido cancelado"
    /\ orders[last.id].status = "cancelled"

\* C10: a confirm is answered 404 when the order does not exist and 400 when it is
\* completed or cancelled, and then changes nothing; so a confirm that follows a
\* successful confirm of the same order adds no stock.
C10_ConfirmRejected ==
    [][last'.op = "confirm" =>
         /\ last'.id \notin DOMAIN orders => (last'.code = 404 /\ DbUnchanged)
         /\ (/\ last'.id \in DOMAIN orders
             /\ orders[last'.id].status \in {"completed", "cancelled"}) =>
               (last'.code = 400 /\ DbUnchanged)
         /\ (last.op = "confirm" /\ last.code = 200 /\ last'.id = last.id) =>
               (last'.code = 400 /\ inventory' = inventory)
      ]_vars

\* a confirm was refused on an order that an earlier confirm had completed
C10_Witness ==
    /\ last.op = "confirm" /\ last.code = 400
    /\ last.id \in DOMAIN orders
    /\ orders[last.id].status = "completed"
    /\ \A i \in Lines(last.id) :
          Stock(orderItems[i].inventoryItemId) =
              InitialStock(orderItems[i].inventoryItemId) + orderItems[i].quantityOrdered

\* the creation the response of this step answers was for the list items
CreateServed(items) == Serve(NewCreate(items))

\* the requested lines with a positive quantity, in the order of the request
Kept(items) == SelectSeq(items, LAMBDA item : item.quantityOrdered > 0)

\* C11: a creation from pairs whose products all exist persists exactly one line per
\* pair with quantity > 0 (quantityOrdered the quantity, quantityReceived 0, status
\* pending, priceAtTime the product's current price) and none for the other pairs,
\* with totalItems the sum of the kept quantities, totalPrice the sum of quantity *
\* priceAtTime, and the order pending.
C11_CreatePersistsKeptLines ==
    [][last'.op = "create" =>
          \A items \in ItemLists :
             (/\ \A k \in DOMAIN items : items[k].inventoryItemId \in DOMAIN inventory
              /\ CreateServed(items)) =>
                LET kept == Kept(items)
                    new == Len(orders) + 1
                    Price(item) == inventory[item.inventoryItemId].precio
                    quantities == [k \in DOMAIN kept |-> kept[k].quantityOrdered]
                    costs == [k \in DOMAIN kept |->
                                 kept[k].quantityOrdered * Price(kept[k])]
                IN /\ Len(orderItems') = Len(orderItems) + Len(kept)
                   /\ \A k \in DOMAIN kept :
                         LET line == orderItems'[Len(orderItems) + k] IN
                         /\ line.orderId = new
                         /\ line.inventoryItemId = kept[k].inventoryItemId
                         /\ line.quantityOrdered = kept[k].quantityOrdered
                         /\ line.quantityReceived = 0
                         /\ line.status = "pending"
                         /\ line.priceAtTime = Price(kept[k])
                   /\ Len(kept) > 0 =>
                         /\ Len(orders') = new
                         /\ orders'[new].totalItems = SumOver(DOMAIN kept, quantities)
                         /\ orders'[new].totalPrice = SumOver(DOMAIN kept, costs)
                         /\ orders'[new].status = "pending"
      ]_vars

\* C12: a creation in which every line has quantity <= 0 is answered 400 and
\* persists no order and no line (a creation step either is such an answer, or
\* serves no list of that kind).
C12_NothingKeptRejected ==
    [][last'.op = "create" =>
          \/ last'.code = 400 /\ DbUnchanged
          \/ \A items \in ItemLists :
                ~(/\ \A k \in DOMAIN items : items[k].quantityOrdered <= 0
                  /\ CreateServed(items))
      ]_vars

\* a creation whose lines were all dropped was refused, and there is still no order
C12_Witness ==
    /\ last.op = "create" /\ last.code = 400 /\ last.error = "al menos un item"
    /\ orders = <<>> /\ orderItems = <<>>

\* C13: a creation in which any line names a product id that does not exist is
\* answered 400 and persists no order and no line, whatever valid lines come before
\* or after that line (a creation step either is such an answer, or serves no list
\* of that kind).
C13_MissingProductRejected ==
    [][last'.op = "create" =>
          \/ last'.code = 400 /\ DbUnchanged
          \/ \A items \in ItemLists :
                ~(/\ \E k \in DOMAIN items :
                        items[k].inventoryItemId \notin DOMAIN inventory
                  /\ CreateServed(items))
      ]_vars

\* a creation naming a product that does not exist was refused, and there is still
\* no order
C13_Witness ==
    /\ last.op = "create" /\ last.code = 400 /\ last.error = "producto no encontrado"
    /\ orders = <<>> /\ orderItems = <<>>

\* the numeric sequences of the orders of the current year
SequencesOfYear ==
    {ParseInt(orders[o].orderNumber.seq) :
        o \in {p \in DOMAIN orders : orders[p].orderNumber.year = year}}

\* C14: with creations served one at a time, the order number generated next has
\* the prefix of the current year and a numeric sequence exactly one more than the
\* largest sequence among the orders of that year (1 when there is none), however
\* many orders the year has, more than 999 included.
C14_NextNumberIsMaxPlusOne ==
    LET generated == generateOrderNumber(DB, year) IN
    /\ generated.year = year
    /\ \A n \in SequencesOfYear : ParseInt(generated.seq) > n
    /\ ParseInt(generated.seq) = 1 \/ ParseInt(generated.seq) - 1 \in SequencesOfYear

\* C15: once an order is created, no receive-item, confirm, cancel, inventory create
\* or inventory update (price changes included) changes its set of lines, a line's
\* product, quantityOrdered or priceAtTime, or the order's orderNumber, totalItems
\* or totalPrice.
C15_OrderFixedAfterCreation ==
    [][/\ \A o \in DOMAIN orders :
            /\ o \in DOMAIN orders'
            /\ orders'[o].orderNumber = orders[o].orderNumber
            /\ orders'[o].totalItems = orders[o].totalItems
            /\ orders'[o].totalPrice = orders[o].totalPrice
            /\ {i \in DOMAIN orderItems' : orderItems'[i].orderId = o} = Lines(o)
       /\ \A i \in DOMAIN orderItems :
            /\ orderItems'[i].inventoryItemId = orderItems[i].inventoryItemId
            /\ orderItems'[i].quantityOrdered = orderItems[i].quantityOrdered
            /\ orderItems'[i].priceAtTime = orderItems[i].priceAtTime
      ]_vars

\* a line received in part after its product was repriced still has the price of
\* the day of the order, and the order its total
C15_Witness ==
    /\ last.op = "receive" /\ last.code = 200
    /\ \E i \in Lines(last.id) :
          /\ orderItems[i].quantityReceived > 0
          /\ orderItems[i].priceAtTime # inventory[orderItems[i].inventoryItemId].precio
          /\ orders[last.id].totalPrice =
                orderItems[i].quantityOrdered * orderItems[i].priceAtTime

\* C16: only administrators read the API logs: a request to GET /api/logs, GET
\* /api/logs/stats or DELETE /api/logs/cleanup with a valid token whose role is not
\* admin is refused and returns no log data.
C16_OnlyAdminsReadLogs ==
    (/\ apiLast.url \in {LogsUrl, LogsStatsUrl, LogsCleanupUrl}
     /\ apiLast.role = "user") =>
        apiLast.code = 403 /\ apiLast.data = <<>>

\* C17: apiLogger records and skips as the documented table says: POST, PUT and
\* DELETE on /api/inventory and /api/inventory/:id are recorded and GET
\* /api/inventory is skipped; GET /api/orders is skipped and POST and PUT under
\* /api/orders are recorded; every request under /api/logs is skipped.
C17_SkipMatchesDocumentedTable ==
    [][LET method == apiLast'.method
           url == apiLast'.url
           recorded == /\ Len(apiLogs') = Len(apiLogs) + 1
                       /\ apiLogs'[Len(apiLogs')].method = method
       IN /\ (url \in {InventoryUrl, InventoryItemUrl}
               /\ method \in {"POST", "PUT", "DELETE"}) => recorded
          /\ (url = InventoryUrl /\ method = "GET") => ~recorded
          /\ (url = OrdersUrl /\ method = "GET") => ~recorded
          /\ (PathStartsWith(url, OrdersUrl) /\ method \in {"POST", "PUT"}) => recorded
          /\ PathStartsWith(url, LogsUrl) => ~recorded
      ]_vars

\* C18: when two receive-items on the same line of a new order interleave at the
\* level of their database calls and both are answered 200, with increments a and
\* b, then after both the line's quantityReceived is its initial value (0) + a + b
\* and the product's stock has risen by exactly a + b.
C18_NoReceptionLost ==
    (/\ AllIdle
     /\ Len(accepted) = 2
     /\ accepted[1].op = "receive" /\ accepted[2].op = "receive"
     /\ accepted[1].itemId = accepted[2].itemId) =>
        LET line == orderItems[accepted[1].itemId]
            a == accepted[1].quantityReceived
            b == accepted[2].quantityReceived
        IN /\ line.quantityReceived = 0 + a + b
           /\ Stock(line.inventoryItemId) = InitialStock(line.inventoryItemId) + a + b

\* C19: when a confirm and a receive-item on the same order interleave at the level
\* of their database calls, then once both have finished the order is completed
\* only if every line has quantityReceived = quantityOrdered and status completed.
C19_CompletedOnlyWithCompletedLines ==
    (/\ AllIdle
     /\ Len(accepted) = 2
     /\ {accepted[1].op, accepted[2].op} = {"confirm", "receive"}
     /\ accepted[1].id = accepted[2].id) =>
        LET o == accepted[1].id IN
        orders[o].status = "completed" =>
           \A i \in Lines(o) :
              /\ orderItems[i].quantityReceived = orderItems[i].quantityOrdered
              /\ orderItems[i].status = "completed"

\* C20: under any interleaving of a cancel with a receive-item or confirm on the
\* same order, no state is reached in which the order is cancelled while one of its
\* lines has quantityReceived > 0, and an order that has become cancelled never
\* takes another status.
C20_CancelledStaysUnreceived ==
    [][\A o \in DOMAIN orders' :
          /\ orders'[o].status = "cancelled" =>
                \A i \in DOMAIN orderItems' :
                   orderItems'[i].orderId = o => orderItems'[i].quantityReceived = 0
          /\ (o \in DOMAIN orders /\ orders[o].status = "cancelled") =>
                orders'[o].status = "cancelled"
      ]_vars

\* the clients whose creation has its order number and has not inserted its order yet
CreationsInFlight == {c \in Clients : reqs[c].op = "create" /\ reqs[c].pc = "insert"}

\* an order with the number creation c holds is in the table
Persisted(c) == \E o \in DOMAIN orders : orders[o].orderNumber = reqs[c].orderNumber

\* C21: two creations of the same year that have both run generateOrderNumber before
\* either inserted its order (and before any order with their numbers was inserted)
\* hold the same order number, the next one of the year; a state with two in-flight
\* creations holding an identical number is reachable (the witness).
C21_InFlightCreationsShareNumber ==
    \A c, d \in CreationsInFlight :
        (c # d /\ ~Persisted(c) /\ ~Persisted(d)) =>
            /\ reqs[c].orderNumber = reqs[d].orderNumber
            /\ reqs[c].orderNumber.year = year
            /\ ParseInt(reqs[c].orderNumber.seq) = Len(orders) + 1

\* two creations are in flight with the same order number, neither inserted
C21_Witness ==
    \E c, d \in CreationsInFlight :
        /\ c # d
        /\ reqs[c].orderNumber = reqs[d].orderNumber
        /\ ~Persisted(c)

\* C22: no two persisted orders ever share an orderNumber, also when creations
\* interleave: when a creation comes to insert an order whose number another creation
\* has inserted meanwhile, the insert fails, the request is answered with an error
\* (500), and no order and no line is persisted.
C22_OrderNumbersUnique ==
    [][/\ \A o, p \in DOMAIN orders' :
            o # p => orders'[o].orderNumber # orders'[p].orderNumber
       /\ \A c \in Clients :
            (NumberTaken(DB, reqs[c]) /\ reqs'[c] = Idle) =>
                /\ last'.op = "create" /\ last'.code = 500
                /\ DbUnchanged
      ]_vars

\* of two creations that overlapped, one inserted its order and the other's insert was
\* refused for the number of that order
C22_Witness ==
    /\ AllIdle /\ started = 2
    /\ last.op = "create" /\ last.code = 500
    /\ Len(orders) = 1
    /\ refused = {orders[1].orderNumber}

\* C23: a line's quantityReceived starts at 0 and never decreases from one state to
\* the next, also when receive-item and confirm requests on the same line interleave
\* at the granularity of their database reads and writes.
C23_ReceivedNeverDecreases ==
    [][/\ \A i \in DOMAIN orderItems :
            orderItems'[i].quantityReceived >= orderItems[i].quantityReceived
       /\ \A i \in DOMAIN orderItems' \ DOMAIN orderItems :
            orderItems'[i].quantityReceived = 0
      ]_vars

\* what was still to be received on the lines of order o for product p when the
\* interrupted confirm arrived
PendingBefore(o, p) ==
    SumOver({i \in DOMAIN before.orderItems :
                /\ before.orderItems[i].orderId = o
                /\ before.orderItems[i].inventoryItemId = p},
            [i \in DOMAIN before.orderItems |->
                before.orderItems[i].quantityOrdered
                    - before.orderItems[i].quantityReceived])

\* C24: a confirm can be replayed after a crash: when a confirm is interrupted after
\* any prefix of its database writes (between the stock write and the line write of
\* one line included) and the confirm sent again runs to completion, each product's
\* stock has risen by exactly what was pending on its line before the first
\* invocation, every line is completed and the order is completed.
C24_ConfirmReplayedSafely ==
    (/\ before.interrupted /\ AllIdle
     /\ last.op = "confirm" /\ last.code = 200 /\ last.id = before.id) =>
        /\ \A p \in Products :
              Stock(p) = before.inventory[p].stock + PendingBefore(before.id, p)
        /\ \A i \in Lines(before.id) :
              /\ orderItems[i].quantityReceived = orderItems[i].quantityOrdered
              /\ orderItems[i].status = "completed"
        /\ orders[before.id].status = "completed"

\* the sum of quantityReceived over the lines, of all orders, that reference product p
ReceivedFor(p) ==
    SumOver({i \in DOMAIN orderItems : orderItems[i].inventoryItemId = p},
            [i \in DOMAIN orderItems |-> orderItems[i].quantityReceived])

Without(items, k) == SubSeq(items, 1, k - 1) \o SubSeq(items, k + 1, Len(items))

\* C26 as stated: a requested line with quantity <= 0 never makes a creation fail,
\* whatever product id it carries: a request with a line of an existing product and a
\* positive quantity is accepted (201) even when another line has quantity <= 0 and a
\* product id that does not exist.
C26_DroppedLineNeverFails ==
    (/\ last.op = "create"
     /\ \E k \in DOMAIN request :
           /\ request[k].inventoryItemId \in DOMAIN inventory
           /\ request[k].quantityOrdered > 0
     /\ \E k \in DOMAIN request :
           /\ request[k].inventoryItemId \notin DOMAIN inventory
           /\ request[k].quantityOrdered <= 0) =>
        last.code = 201

\* C26, amended: a requested line with quantity <= 0 is dropped only when its product
\* exists, and then it never changes the outcome of the creation: the request gets
\* the status code and persists the order and lines that the request without that
\* line gets on the same tables; a line with quantity <= 0 whose product does not
\* exist makes the creation answer 400 and persist nothing.
C26_DroppedOnlyIfProductExists ==
    [][last'.op = "create" =>
          \A k \in DOMAIN request' :
             request'[k].quantityOrdered <= 0 =>
                IF request'[k].inventoryItemId \in DOMAIN inventory
                THEN LET out == RunToEnd(DB, NewCreate(Without(request', k))) IN
                     /\ last'.code = out.r.code
                     /\ inventory' = out.db.inventory
                     /\ orders' = out.db.orders
                     /\ orderItems' = out.db.orderItems
                ELSE last'.code = 400 /\ DbUnchanged
      ]_vars

\* a creation was accepted with one line persisted, the other line of its request
\* having a quantity <= 0
C26_Witness ==
    /\ last.op = "create" /\ last.code = 201
    /\ Len(request) = 2
    /\ \E k \in DOMAIN request : request[k].quantityOrdered <= 0
    /\ Len(orderItems) = 1 /\ orderItems[1].orderId = last.id

\* C27: no persisted order ever has two lines that reference the same product; a
\* creation that names one existing product in two lines with positive quantities
\* persists no order and no line and is answered 400.
C27_DuplicateLinesRefused ==
    [][/\ \A i, j \in DOMAIN orderItems' :
            (i # j /\ orderItems'[i].orderId = orderItems'[j].orderId) =>
                orderItems'[i].inventoryItemId # orderItems'[j].inventoryItemId
       /\ (/\ last'.op = "create"
           /\ \E k, l \in DOMAIN request' :
                 /\ k # l
                 /\ request'[k].inventoryItemId = request'[l].inventoryItemId
                 /\ request'[k].inventoryItemId \in DOMAIN inventory
                 /\ request'[k].quantityOrdered > 0
                 /\ request'[l].quantityOrdered > 0) =>
             last'.code = 400 /\ DbUnchanged
      ]_vars

\* C28: when requests run one at a time, in every state between requests an order's
\* completedAt is set if and only if the order's status is completed, and a line's
\* receivedAt is set if and only if the line's status is completed.
C28_TimestampsFollowStatus ==
    /\ \A o \in DOMAIN orders :
          orders[o].completedAt <=> orders[o].status = "completed"
    /\ \A i \in DOMAIN orderItems :
          orderItems[i].receivedAt <=> orderItems[i].status = "completed"

\* after a receive-item, a partial order without completedAt has a completed line
\* with receivedAt and a partial line without
C28_Witness ==
    /\ last.op = "receive" /\ last.code = 200
    /\ orders[last.id].status = "partial" /\ ~orders[last.id].completedAt
    /\ \E i, j \in Lines(last.id) :
          /\ orderItems[i].status = "completed" /\ orderItems[i].receivedAt
          /\ orderItems[j].status = "partial" /\ ~orderItems[j].receivedAt

\* C29: for one client IP, the first three login attempts with a code that matches
\* no user are passed on to the login handler, and every later attempt with an
\* unknown code from that IP is answered 429 without reaching the handler, until an
\* attempt from that IP with the code of a user whose failedAttempts is below 4
\* clears the IP's counter; attempts from other IPs are unaffected (unknownSince
\* counts the unknown-code attempts of the IP since the last such clearing attempt).
C29_FourthUnknownAttemptRefused ==
    [][authLast'.op = "login" =>
          LET ip == authLast'.ip IN
          /\ UnknownCode(users, authLast'.code) =>
                IF unknownSince[ip] < 3
                THEN authLast'.handled
                ELSE ~authLast'.handled /\ authLast'.status = 429
          /\ \A other \in IPs \ {ip} : attemptsByIP'[other] = attemptsByIP[other]
      ]_vars

\* an address at its fourth unknown code is refused while another address, at its
\* first, has been let through to the handler
C29_Witness ==
    /\ authLast.op = "login" /\ authLast.status = 429 /\ ~authLast.handled
    /\ unknownSince[authLast.ip] = 4
    /\ \E other \in IPs \ {authLast.ip} : unknownSince[other] = 1

\* C30: a user whose stored role is admin and who is not blocked can, after a
\* successful POST /auth/login with their PIN, use the returned token for the
\* administrator-only operations (getUsers, createUser, updateUser, deleteUser,
\* getSystemStats) without being refused with 403, while a token of a user whose
\* stored role is user is always refused with 403 by those operations.
C30_AdminTokenAccepted ==
    [][(authLast'.op \in UsersOperations /\ authLast'.token \in tokens) =>
          LET holder == authLast'.token.userId IN
          holder \in DOMAIN users =>
             /\ (users[holder].role = "admin" /\ ~users[holder].blocked) =>
                   authLast'.status # 403
             /\ users[holder].role = "user" => authLast'.status = 403
      ]_vars

====
